---------------------------- MODULE Spec2Model ----------------------------
(***************************************************************************)
(* web-stalker: a scanner that fetches one page and guesses the web        *)
(* server, the frontend framework and the backend language from the body   *)
(* and the response headers.  Two programs are modelled: main.py (the      *)
(* basic strategy) and v2.py (the context-validated strategy), with the    *)
(* Messages logger both of them call.                                      *)
(*                                                                         *)
(* Text is a sequence of one-character strings, so that searching,         *)
(* slicing and case folding are computed as Python computes them.          *)
(***************************************************************************)
EXTENDS Integers, Sequences, FiniteSets, TLC

VARIABLES
    file,          \* which program runs: "main" (main.py) or "v2" (v2.py)
    verbose,       \* self.verbose
    output_json,   \* self.output_json
    results,       \* self.results: a dict, here a function on its keys
    pc,            \* position in run() / in the call of one method
    html_content,  \* first value returned by fetch_website (None or text)
    headers,       \* second value returned by fetch_website (None or header list)
    response,      \* what the server behind the URL answers to a request
    server,        \* the Server header value handed to detect_web_server
    fetches,       \* number of requests.get calls issued
    calls,         \* methods of the scanner entered so far, in order
    report,        \* which branch of the results display was taken
    json_out,      \* what print(json.dumps(self.results)) emitted, if anything
    ret            \* return value of the method called (methods called alone)

vars == <<file, verbose, output_json, results, pc, html_content, headers,
          response, server, fetches, calls, report, json_out, ret>>

-----------------------------------------------------------------------------
(* Python text                                                             *)

UpperCase == <<"A","B","C","D","E","F","G","H","I","J","K","L","M",
               "N","O","P","Q","R","S","T","U","V","W","X","Y","Z">>

LowerCase == <<"a","b","c","d","e","f","g","h","i","j","k","l","m",
               "n","o","p","q","r","s","t","u","v","w","x","y","z">>

Digits == {"0","1","2","3","4","5","6","7","8","9"}

Whitespace == {" ", "\n", "\t"}

\* re.I: a character is compared by its lower-case form
Lower(c) ==
    IF \E i \in 1..26 : UpperCase[i] = c
    THEN LowerCase[CHOOSE i \in 1..26 : UpperCase[i] = c]
    ELSE c

\* the class \w
IsWord(c) ==
    \/ \E i \in 1..26 : c = UpperCase[i] \/ c = LowerCase[i]
    \/ c \in Digits
    \/ c = "_"

\* one element of a pattern against one character of the text, under re.I
ElemMatches(e, c) ==
    CASE e = "ANY"   -> c # "\n"
      [] e = "QUOTE" -> c \in {"'", "\""}
      [] e = "WORD+" -> IsWord(c)
      [] OTHER       -> Lower(c) = e

\* number of consecutive \w characters of t from position p
RECURSIVE RunLen(_, _)
RunLen(t, p) ==
    IF p > Len(t) \/ ~IsWord(t[p]) THEN 0 ELSE 1 + RunLen(t, p + 1)

\* One alternative of a pattern matched at position p of t (1-based), from its
\* k-th element on: the position just after the match, or 0 when it fails.
\* \w+ is greedy and gives characters back when the rest fails.
RECURSIVE MatchEnd(_, _, _, _)
RECURSIVE GreedyWord(_, _, _, _, _)
MatchEnd(alt, k, t, p) ==
    IF k > Len(alt) THEN p
    ELSE IF alt[k] = "WORD+" THEN GreedyWord(alt, k, t, p, RunLen(t, p))
    ELSE IF p > Len(t) THEN 0
    ELSE IF ElemMatches(alt[k], t[p]) THEN MatchEnd(alt, k + 1, t, p + 1)
    ELSE 0

GreedyWord(alt, k, t, p, n) ==
    IF n < 1 THEN 0
    ELSE LET e == MatchEnd(alt, k + 1, t, p + n)
         IN  IF e # 0 THEN e ELSE GreedyWord(alt, k, t, p, n - 1)

\* the first alternative, in the order written, that matches at p (0: none)
RECURSIVE AltAt(_, _, _, _)
AltAt(pattern, a, t, p) ==
    IF a > Len(pattern.alts) THEN 0
    ELSE IF MatchEnd(pattern.alts[a], 1, t, p) # 0 THEN a
    ELSE AltAt(pattern, a + 1, t, p)

NoMatch == [found |-> FALSE]

\* pattern.search(t) restricted to start positions >= from: the leftmost
\* position where an alternative matches, and the first such alternative.
SearchFrom(pattern, t, from) ==
    LET hits == {p \in from..Len(t) : AltAt(pattern, 1, t, p) # 0}
    IN  IF hits = {} THEN NoMatch
        ELSE LET p == CHOOSE q \in hits : \A r \in hits : q <= r
                 a == AltAt(pattern, 1, t, p)
             IN  [found |-> TRUE, start |-> p, alt |-> a,
                  end |-> MatchEnd(pattern.alts[a], 1, t, p)]

\* pattern.search(t)
Search(pattern, t) == SearchFrom(pattern, t, 1)

\* match.group(): the matched text itself, in the case the body has it
Group(t, m) == SubSeq(t, m.start, m.end - 1)

\* the item findall reports for one match: the whole match when the pattern
\* has no group, else the text of its group ('' when the group took no part)
FindallItem(pattern, t, m) ==
    IF ~pattern.hasGroup THEN Group(t, m)
    ELSE IF pattern.groupAt[m.alt] < 0 THEN <<>>
    ELSE SubSeq(t, m.start + pattern.groupAt[m.alt], m.end - 1)

\* pattern.findall(t): the non-overlapping matches, left to right
RECURSIVE FindallFrom(_, _, _)
FindallFrom(pattern, t, from) ==
    LET m == SearchFrom(pattern, t, from)
    IN  IF ~m.found THEN <<>>
        ELSE <<FindallItem(pattern, t, m)>> \o FindallFrom(pattern, t, m.end)

Findall(pattern, t) == FindallFrom(pattern, t, 1)

\* t.find(sub): 0-based index of the first exact occurrence, -1 when absent
Find(t, sub) ==
    LET n    == Len(sub)
        hits == {p \in 1..(Len(t) - n + 1) : SubSeq(t, p, p + n - 1) = sub}
    IN  IF n = 0 THEN 0
        ELSE IF hits = {} THEN -1
        ELSE (CHOOSE q \in hits : \A r \in hits : q <= r) - 1

\* sub in t
Contains(t, sub) == Find(t, sub) >= 0

Max(a, b) == IF a >= b THEN a ELSE b

Min(a, b) == IF a <= b THEN a ELSE b

\* t[lo:hi] for 0 <= lo and 0 <= hi
Slice(t, lo, hi) == SubSeq(t, Min(lo, Len(t)) + 1, Min(hi, Len(t)))

\* t.strip()
Strip(t) ==
    LET keep == {p \in 1..Len(t) : t[p] \notin Whitespace}
    IN  IF keep = {} THEN <<>>
        ELSE SubSeq(t, CHOOSE q \in keep : \A r \in keep : q <= r,
                       CHOOSE q \in keep : \A r \in keep : q >= r)

\* a pattern without a group
Pattern(alternatives) ==
    [alts |-> alternatives, hasGroup |-> FALSE,
     groupAt |-> [a \in 1..Len(alternatives) |-> -1]]

-----------------------------------------------------------------------------
(* The pattern tables                                                      *)

\* TECHNOLOGIES; var/(cache|compiled) is written out as its two alternatives,
\* its group starting 4 characters into the match
TECHNOLOGIES == <<
    [name |-> "WordPress",
     pattern |-> Pattern(<<<<"w","p","-","c","o","n","t","e","n","t">>,
       <<"w","o","r","d","p","r","e","s","s">>>>)],
    [name |-> "Django",
     pattern |-> Pattern(<<<<"c","s","r","f","m","i","d","d","l","e","w","a","r","e","t","o","k","e","n">>,
       <<"d","j","a","n","g","o">>>>)],
    [name |-> "Flask",
     pattern |-> Pattern(<<<<"f","l","a","s","k","-","s","e","s","s","i","o","n">>,
       <<"f","l","a","s","k">>>>)],
    [name |-> "Ruby on Rails",
     pattern |-> Pattern(<<<<"r","u","b","y">>,
       <<"r","a","i","l","s">>>>)],
    [name |-> "Laravel",
     pattern |-> Pattern(<<<<"l","a","r","a","v","e","l">>,
       <<"p","h","p"," ","a","r","t","i","s","a","n">>>>)],
    [name |-> "Next.js",
     pattern |-> Pattern(<<<<"n","e","x","t","j","s">>,
       <<"_","n","e","x","t">>>>)],
    [name |-> "React",
     pattern |-> Pattern(<<<<"r","e","a","c","t">>,
       <<"r","e","a","c","t","-","d","o","m">>>>)],
    [name |-> "Vue.js",
     pattern |-> Pattern(<<<<"v","u","e","j","s">>,
       <<"v","u","e","-","r","o","u","t","e","r">>>>)],
    [name |-> "CS-Cart",
     pattern |-> [alts |-> <<<<"c","s","c","a","r","t">>,
       <<"v","a","r","/","c","a","c","h","e">>,
       <<"v","a","r","/","c","o","m","p","i","l","e","d">>>>,
      hasGroup |-> TRUE, groupAt |-> <<-1, 4, 4>>]],
    [name |-> "Bitrix",
     pattern |-> Pattern(<<<<"b","i","t","r","i","x">>,
       <<"b","x","c","o","r","e">>>>)]>>

\* WEB_SERVERS; the label is text, it is stored where the raw header value was
WEB_SERVERS == <<
    [name |-> <<"n","g","i","n","x">>,
     pattern |-> Pattern(<<<<"n","g","i","n","x">>>>)],
    [name |-> <<"A","p","a","c","h","e">>,
     pattern |-> Pattern(<<<<"a","p","a","c","h","e">>>>)],
    [name |-> <<"L","i","t","e","S","p","e","e","d">>,
     pattern |-> Pattern(<<<<"l","i","t","e","s","p","e","e","d">>>>)]>>

\* BACKEND_LANGUAGES; the dot of node.js is the regex dot
BACKEND_LANGUAGES == <<
    [name |-> "PHP",
     pattern |-> Pattern(<<<<"p","h","p">>>>)],
    [name |-> "Python",
     pattern |-> Pattern(<<<<"p","y","t","h","o","n">>>>)],
    [name |-> "Ruby",
     pattern |-> Pattern(<<<<"r","u","b","y">>>>)],
    [name |-> "Node.js",
     pattern |-> Pattern(<<<<"n","o","d","e","ANY","j","s">>,
       <<"j","a","v","a","s","c","r","i","p","t">>>>)]>>

\* tech_patterns of detect_technologies (searched with re.I)
tech_patterns == <<
    [name |-> "WordPress",
     pattern |-> Pattern(<<<<"/","w","p","-","c","o","n","t","e","n","t","/">>>>)],
    [name |-> "Django",
     pattern |-> Pattern(<<<<"n","a","m","e","=","QUOTE","c","s","r","f","m","i","d","d","l","e","w","a","r","e","t","o","k","e","n","QUOTE">>>>)],
    [name |-> "Flask",
     pattern |-> Pattern(<<<<"f","l","a","s","k">>>>)],
    [name |-> "React",
     pattern |-> Pattern(<<<<"/","s","t","a","t","i","c","/","j","s","/","m","a","i","n",".","WORD+",".","j","s">>>>)],
    [name |-> "Vue.js",
     pattern |-> Pattern(<<<<"v","u","e","ANY","r","u","n","t","i","m","e","ANY","m","i","n","ANY","j","s">>>>)],
    [name |-> "Laravel",
     pattern |-> Pattern(<<<<"/","j","s","/","a","p","p","ANY","j","s">>>>)],
    [name |-> "Ruby on Rails",
     pattern |-> Pattern(<<<<"d","a","t","a","-","t","u","r","b","o","l","i","n","k","s","-","t","r","a","c","k">>>>)],
    [name |-> "Next.js",
     pattern |-> Pattern(<<<<"_","_","n","e","x","t","_","d","a","t","a","_","_">>>>)]>>

\* backend_patterns of detect_backend (searched with re.I)
backend_patterns == <<
    [name |-> "PHP",
     pattern |-> Pattern(<<<<".","p","h","p">>>>)],
    [name |-> "Python",
     pattern |-> Pattern(<<<<"w","s","g","i">>,
       <<"d","j","a","n","g","o">>,
       <<"f","l","a","s","k">>>>)],
    [name |-> "Ruby",
     pattern |-> Pattern(<<<<"r","a","i","l","s">>,
       <<".","r","b">>>>)],
    [name |-> "Node.js",
     pattern |-> Pattern(<<<<"e","x","p","r","e","s","s">>,
       <<"n","o","d","e","ANY","j","s">>>>)]>>
-----------------------------------------------------------------------------
(* Values                                                                  *)

\* Python's None, and a value that is not None
None == [some |-> FALSE]

Some(v) == [some |-> TRUE, val |-> v]

\* a dict as a function on its keys
EmptyDict == <<>>

\* d[k] = v
Put(d, k, v) == [x \in (DOMAIN d) \cup {k} |-> IF x = k THEN v ELSE d[x]]

\* what a call leaves behind: self.results, whether an exception left the
\* method, and the value returned when none did
Returned(res, value) == [results |-> res, raised |-> FALSE, ret |-> value]

Raised(res) == [results |-> res, raised |-> TRUE, ret |-> None]

\* headers.get(name, default)
HeaderGet(hdrs, name, default) ==
    IF \E i \in 1..Len(hdrs) : hdrs[i][1] = name
    THEN hdrs[CHOOSE i \in 1..Len(hdrs) : hdrs[i][1] = name][2]
    ELSE default

\* the first index of a table, from i on, whose pattern is found in t (0: none)
RECURSIVE FirstFrom(_, _, _)
FirstFrom(table, t, i) ==
    IF i > Len(table) THEN 0
    ELSE IF Search(table[i].pattern, t).found THEN i
    ELSE FirstFrom(table, t, i + 1)

\* any(pattern.search(value) for value in headers.values())
AnyValueMatches(pattern, hdrs) ==
    \E i \in 1..Len(hdrs) : Search(pattern, hdrs[i][2]).found

\* next(value for value in headers.values() if pattern.search(value), default)
FirstValueMatching(pattern, hdrs, default) ==
    LET hits == {i \in 1..Len(hdrs) : Search(pattern, hdrs[i][2]).found}
    IN  IF hits = {} THEN default
        ELSE hdrs[CHOOSE q \in hits : \A r \in hits : q <= r][2]

-----------------------------------------------------------------------------
(* Messages                                                                *)

\* What the name Messages has in each program.  main.py says
\* "import Messages", which binds the module: its attributes are the names
\* Messages.py defines at top level.  v2.py says "from Messages import
\* Messages", which binds the class and its static methods.
MessagesAttributes(f) ==
    IF f = "main" THEN {"datetime", "Messages"}
    ELSE {"log", "info", "warn", "error", "success", "banner"}

\* Messages.<method>(...): TRUE when the call prints and returns, FALSE when
\* the attribute lookup raises AttributeError
Log(f, method) == method \in MessagesAttributes(f)

-----------------------------------------------------------------------------
(* The scanner's methods                                                   *)

ContextWindow == 50

T_Unknown == <<"U","n","k","n","o","w","n">>

T_Headers == <<"H","e","a","d","e","r","s">>

\* detect_web_server(self, server_info)
detect_web_server(f, res, server_info) ==
    IF ~Log(f, "info") THEN Raised(res)
    ELSE LET i == FirstFrom(WEB_SERVERS, server_info, 1)
         IN  IF i # 0
             THEN IF ~Log(f, "success") THEN Raised(res)
                  ELSE Returned(Put(res, "Web Server", WEB_SERVERS[i].name), None)
             ELSE IF ~Log(f, "warn") THEN Raised(res)
                  ELSE Returned(res, None)

\* as RequestFails, with response.raise_for_status() left out
RequestFailsOnNetworkErrorOnly(resp) == resp.kind = "network_error"

\* requests.get(...) or response.raise_for_status() raises RequestException
RequestFails(resp) == resp.kind # "ok"

\* fetch_website(self): the outcome of the call, with the methods it entered
\* and whether the request was sent
fetch_website(f, v, res, resp) ==
    LET here == <<"fetch_website">>
        out(o, entered, sent) ==
            [results |-> o.results, raised |-> o.raised, ret |-> o.ret,
             entered |-> entered, sent |-> sent]
    IN  IF v /\ ~Log(f, "info") THEN out(Raised(res), here, FALSE)
        ELSE IF RequestFails(resp)
        THEN IF ~Log(f, "error") THEN out(Raised(res), here, TRUE)
             ELSE out(Returned(res, <<None, None>>), here, TRUE)
        ELSE LET srv == HeaderGet(resp.headers, "Server", T_Unknown)
             IN  IF v /\ ~Log(f, "success") THEN out(Raised(res), here, TRUE)
                 ELSE LET o == detect_web_server(f, Put(res, "Web Server", srv),
                                                 srv)
                          pair == <<Some(resp.text), Some(resp.headers)>>
                      IN  IF o.raised
                          THEN out(o, here \o <<"detect_web_server">>, TRUE)
                          ELSE out(Returned(o.results, pair),
                                   here \o <<"detect_web_server">>, TRUE)

\* identify_technology(self, html): the loop over TECHNOLOGIES from index i
RECURSIVE identify_technology_loop(_, _, _, _)
identify_technology_loop(f, res, html, i) ==
    IF i > Len(TECHNOLOGIES) THEN Returned(res, None)
    ELSE LET m == Search(TECHNOLOGIES[i].pattern, html)
         IN  IF ~m.found THEN identify_technology_loop(f, res, html, i + 1)
             ELSE IF ~Log(f, "success") THEN Raised(res)
             ELSE identify_technology_loop(f,
                      Put(res, "Frontend",
                          [name |-> TECHNOLOGIES[i].name,
                           detected_by |-> Group(html, m)]),
                      html, i + 1)

identify_technology(f, res, html) ==
    IF ~Log(f, "info") THEN Raised(res)
    ELSE identify_technology_loop(f, res, html, 1)

\* identify_backend_language(self, html, headers): the loop from index i
RECURSIVE identify_backend_language_loop(_, _, _, _, _)
identify_backend_language_loop(f, res, html, hdrs, i) ==
    IF i > Len(BACKEND_LANGUAGES)
    THEN IF ~Log(f, "warn") THEN Raised(res) ELSE Returned(res, None)
    ELSE LET pattern      == BACKEND_LANGUAGES[i].pattern
             match_html   == Search(pattern, html)
             match_header == AnyValueMatches(pattern, hdrs)
         IN  IF ~(match_html.found \/ match_header)
             THEN identify_backend_language_loop(f, res, html, hdrs, i + 1)
             ELSE IF ~Log(f, "success") THEN Raised(res)
             ELSE Returned(
                      Put(res, "Backend Language",
                          [name |-> BACKEND_LANGUAGES[i].name,
                           source |-> IF match_html.found THEN "HTML" ELSE "Headers",
                           detected_by |->
                               IF match_html.found THEN Group(html, match_html)
                               ELSE FirstValueMatching(pattern, hdrs, T_Unknown)]),
                      None)

identify_backend_language(f, res, html, hdrs) ==
    IF ~Log(f, "info") THEN Raised(res)
    ELSE identify_backend_language_loop(f, res, html, hdrs, 1)

-----------------------------------------------------------------------------
(* v2.py: the context-validated strategy                                   *)

\* related_keywords of is_valid_context
related_keywords ==
    ("WordPress" :> <<<<"w","p","-","c","o","n","t","e","n","t">>,
                      <<"w","p","-","i","n","c","l","u","d","e","s">>>>)
    @@ ("Django" :> <<<<"c","s","r","f","m","i","d","d","l","e","w","a","r","e","t","o","k","e","n">>>>)
    @@ ("Flask" :> <<<<"f","l","a","s","k","-","s","e","s","s","i","o","n">>>>)
    @@ ("React" :> <<<<"r","e","a","c","t","-","d","o","m">>,
                     <<"j","s","x">>>>)

\* related_keywords.get(tech, [])
KeywordsFor(tech) ==
    IF tech \in DOMAIN related_keywords THEN related_keywords[tech] ELSE <<>>

\* as is_valid_context, a technology without keywords taken as valid
is_valid_context_lenient(context, tech) ==
    \/ KeywordsFor(tech) = <<>>
    \/ \E k \in 1..Len(KeywordsFor(tech)) : Contains(context, KeywordsFor(tech)[k])

\* is_valid_context(self, context, tech)
is_valid_context(context, tech) ==
    \E k \in 1..Len(KeywordsFor(tech)) : Contains(context, KeywordsFor(tech)[k])

\* html[max(0, html.find(match) - 50):html.find(match) + 50]
FindContext(html, match) ==
    Slice(html, Max(0, Find(html, match) - ContextWindow),
                Find(html, match) + ContextWindow)

\* identify_technology_with_context(self, html): the loops, from the j-th
\* match of the i-th technology on
RECURSIVE identify_technology_with_context_loop(_, _, _, _, _)
identify_technology_with_context_loop(f, res, html, i, j) ==
    IF i > Len(TECHNOLOGIES)
    THEN IF ~Log(f, "warn") THEN Raised(res) ELSE Returned(res, None)
    ELSE LET matches == Findall(TECHNOLOGIES[i].pattern, html)
         IN  IF j > Len(matches)
             THEN identify_technology_with_context_loop(f, res, html, i + 1, 1)
             ELSE IF ~is_valid_context(FindContext(html, matches[j]),
                                       TECHNOLOGIES[i].name)
             THEN identify_technology_with_context_loop(f, res, html, i, j + 1)
             ELSE IF ~Log(f, "success") THEN Raised(res)
             ELSE Returned(Put(res, "Frontend",
                               [name |-> TECHNOLOGIES[i].name,
                                detected_by |-> matches[j]]),
                           None)

identify_technology_with_context(f, res, html) ==
    IF ~Log(f, "info") THEN Raised(res)
    ELSE identify_technology_with_context_loop(f, res, html, 1, 1)

\* html[max(0, match_html.start() - 50):match_html.end() + 50]
MatchContext(html, m) ==
    Slice(html, Max(0, (m.start - 1) - ContextWindow), (m.end - 1) + ContextWindow)

\* identify_backend_language_with_context(self, html, headers): the loop
RECURSIVE identify_backend_language_with_context_loop(_, _, _, _, _)
identify_backend_language_with_context_loop(f, res, html, hdrs, i) ==
    IF i > Len(BACKEND_LANGUAGES)
    THEN IF ~Log(f, "warn") THEN Raised(res) ELSE Returned(res, None)
    ELSE LET lang         == BACKEND_LANGUAGES[i].name
             pattern      == BACKEND_LANGUAGES[i].pattern
             match_html   == Search(pattern, html)
             match_header == AnyValueMatches(pattern, hdrs)
             context      == MatchContext(html, match_html)
         IN  IF match_html.found /\ is_valid_context(context, lang)
             THEN IF ~Log(f, "success") THEN Raised(res)
                  ELSE Returned(Put(res, "Backend Language",
                                    [name |-> lang,
                                     detected_by |-> Strip(context)]),
                                None)
             ELSE IF match_header
             THEN IF ~Log(f, "success") THEN Raised(res)
                  ELSE Returned(Put(res, "Backend Language",
                                    [name |-> lang, detected_by |-> T_Headers]),
                                None)
             ELSE identify_backend_language_with_context_loop(f, res, html,
                                                              hdrs, i + 1)

identify_backend_language_with_context(f, res, html, hdrs) ==
    IF ~Log(f, "info") THEN Raised(res)
    ELSE identify_backend_language_with_context_loop(f, res, html, hdrs, 1)

\* the labels of a table whose pattern is found in t, in table order
RECURSIVE DetectedFrom(_, _, _)
DetectedFrom(table, t, i) ==
    IF i > Len(table) THEN <<>>
    ELSE (IF Search(table[i].pattern, t).found THEN <<table[i].name>> ELSE <<>>)
         \o DetectedFrom(table, t, i + 1)

\* detect_technologies(html), called through the class
detect_technologies(f, html) ==
    LET detected_tech == DetectedFrom(tech_patterns, html, 1)
    IN  IF detected_tech # <<>>
        THEN IF ~Log(f, "success") THEN Raised(EmptyDict)
             ELSE Returned(EmptyDict, Some(detected_tech))
        ELSE IF ~Log(f, "warning") THEN Raised(EmptyDict)
             ELSE Returned(EmptyDict, Some(detected_tech))

\* the first index of a table, from i on, whose pattern is found in some
\* header value (0: none)
RECURSIVE FirstHeaderFrom(_, _, _)
FirstHeaderFrom(table, hdrs, i) ==
    IF i > Len(table) THEN 0
    ELSE IF AnyValueMatches(table[i].pattern, hdrs) THEN i
    ELSE FirstHeaderFrom(table, hdrs, i + 1)

\* detect_backend(headers, html), called through the class
detect_backend(f, hdrs, html) ==
    LET h == FirstHeaderFrom(backend_patterns, hdrs, 1)
        b == IF h # 0 THEN h ELSE FirstFrom(backend_patterns, html, 1)
    IN  IF b # 0
        THEN IF ~Log(f, "success") THEN Raised(EmptyDict)
             ELSE Returned(EmptyDict, Some(backend_patterns[b].name))
        ELSE IF ~Log(f, "warning") THEN Raised(EmptyDict)
             ELSE Returned(EmptyDict, None)

-----------------------------------------------------------------------------
(* Inputs: bodies, header lists and Server values                          *)

MaxGaps == 4

GapStep == 15

F_hello == <<"h","e","l","l","o">>

F_react == <<"r","e","a","c","t">>

F_React == <<"R","e","a","c","t">>

F_react_jsx == <<"r","e","a","c","t"," ","j","s","x">>

F_django == <<"d","j","a","n","g","o">>

F_flask == <<"f","l","a","s","k">>

F_flask_session == <<"f","l","a","s","k","-","s","e","s","s","i","o","n">>

F_index_php == <<"i","n","d","e","x",".","p","h","p">>

F_wp_content == <<"/","w","p","-","c","o","n","t","e","n","t","/">>

F_cscart == <<"c","s","c","a","r","t"," ","v","a","r","/","c","a","c","h","e">>

F_generator == <<"<","m","e","t","a"," ","n","a","m","e","=","\"","g","e","n","e","r","a","t","o","r","\""," ","c","o","n","t","e","n","t","=","\"","W","o","r","d","P","r","e","s","s"," ","6",".","0","\"",">">>

\* the texts a body is put together from
Frags == {<<>>, F_hello, F_react, F_React, F_react_jsx, F_django,
          F_flask, F_flask_session, F_index_php, F_wp_content, F_cscart, F_generator}

\* n spaces
Spaces(n) == [i \in 1..n |-> " "]

\* the distances between the two parts of a body
Gaps == {k * GapStep : k \in 0..MaxGaps}

\* a body: one text, a run of spaces, another text
Body(a, g, b) == a \o Spaces(g) \o b

Bodies == {Body(a, g, b) : a \in Frags, g \in Gaps, b \in Frags}

\* the bodies whole scans are run on
RunBodies == {Body(a, g, b) : a \in Frags, g \in Gaps, b \in {<<>>, F_react_jsx}}

V_nginx == <<"n","g","i","n","x","/","1",".","1","8",".","0">>

V_php == <<"P","H","P","/","8",".","1">>

\* header lists, in the order the response gives them
HeaderLists ==
    { <<>>,
      << <<"Server", V_nginx>> >>,
      << <<"X-Powered-By", V_php>> >>,
      << <<"Server", <<"P","h","u","s","i","o","n"," ","P","a","s","s","e","n","g","e","r"," ","(","r","u","b","y",")">>>>,
         <<"X-Powered-By", V_php>> >>,
      << <<"Server", <<"A","p","a","c","h","e">>>>,
         <<"X-Powered-By", <<"E","x","p","r","e","s","s">>>> >>,
      << <<"Content-Type", <<"t","e","x","t","/","j","a","v","a","s","c","r","i","p","t">>>> >> }

\* values of the Server header handed to detect_web_server
ServerValues ==
    { T_Unknown, V_nginx, <<>>,
      <<"A","p","a","c","h","e","/","2",".","4">>,
      <<"L","i","t","e","S","p","e","e","d">>,
      <<"N","G","I","N","X">>,
      <<"a","p","a","c","h","e"," ","n","g","i","n","x">>,
      <<"l","i","t","e","s","p","e","e","d"," ","A","p","a","c","h","e">>,
      <<"g","u","n","i","c","o","r","n">> }

\* what the server may answer to the request: a page, an error status with its page, or
\* nothing at all (timeout, connection refused)
OkResponses ==
    {[kind |-> "ok", text |-> b, headers |-> h] : b \in RunBodies, h \in HeaderLists}

FailedResponses ==
    {[kind |-> "http_error", text |-> b, headers |-> h] :
         b \in {F_hello, F_generator}, h \in HeaderLists}
    \cup {[kind |-> "network_error", text |-> <<>>, headers |-> <<>>]}

Responses == OkResponses \cup FailedResponses

NoResponse == [kind |-> "none", text |-> <<>>, headers |-> <<>>]

-----------------------------------------------------------------------------
(* run(): a scan started by main()                                         *)

\* the scanner main() builds (verbose is "args.verbose or True"), and what
\* the server behind the URL answers
InitRun ==
    /\ file \in {"main", "v2"}
    /\ verbose = TRUE
    /\ output_json \in BOOLEAN
    /\ results = EmptyDict
    /\ pc = "run"
    /\ html_content = None
    /\ headers = None
    /\ response \in Responses
    /\ server = None
    /\ fetches = 0
    /\ calls = <<>>
    /\ report = "none"
    /\ json_out = None
    /\ ret = None

\* Messages.banner(); Messages.info("Starting scan ...")
RunBanner ==
    /\ pc = "run"
    /\ calls' = calls \o <<"run">>
    /\ pc' = IF Log(file, "banner") /\ Log(file, "info") THEN "fetch" ELSE "raised"
    /\ UNCHANGED <<file, verbose, output_json, results, html_content, headers,
                   response, server, fetches, report, json_out, ret>>

\* html_content, headers = self.fetch_website()
RunFetch ==
    /\ pc = "fetch"
    /\ LET o == fetch_website(file, verbose, results, response)
       IN  /\ results' = o.results
           /\ calls' = calls \o o.entered
           /\ fetches' = IF o.sent THEN fetches + 1 ELSE fetches
           /\ server' = IF Len(o.entered) > 1
                        THEN Some(HeaderGet(response.headers, "Server", T_Unknown))
                        ELSE server
           /\ html_content' = IF o.raised THEN html_content ELSE o.ret[1]
           /\ headers' = IF o.raised THEN headers ELSE o.ret[2]
           /\ pc' = IF o.raised THEN "raised" ELSE "check"
    /\ UNCHANGED <<file, verbose, output_json, response, report, json_out, ret>>

\* as ContentMissing, testing "html_content is None"
ContentIsNone(content) == ~content.some

\* not html_content: None, or the empty text
ContentMissing(content) == ~content.some \/ content.val = <<>>

\* if not html_content: Messages.warn(...); return
RunCheck ==
    /\ pc = "check"
    /\ pc' = IF ~ContentMissing(html_content) THEN "technology"
             ELSE IF Log(file, "warn") THEN "aborted" ELSE "raised"
    /\ UNCHANGED <<file, verbose, output_json, results, html_content, headers,
                   response, server, fetches, calls, report, json_out, ret>>

\* self.identify_technology(html_content) in main.py,
\* self.identify_technology_with_context(html_content) in v2.py
RunTechnology ==
    /\ pc = "technology"
    /\ LET o == IF file = "main"
                THEN identify_technology(file, results, html_content.val)
                ELSE identify_technology_with_context(file, results, html_content.val)
       IN  /\ results' = o.results
           /\ pc' = IF o.raised THEN "raised" ELSE "backend"
    /\ calls' = calls \o <<IF file = "main" THEN "identify_technology"
                           ELSE "identify_technology_with_context">>
    /\ UNCHANGED <<file, verbose, output_json, html_content, headers, response,
                   server, fetches, report, json_out, ret>>

\* self.identify_backend_language(html_content, headers) in main.py,
\* self.identify_backend_language_with_context(html_content, headers) in v2.py
RunBackend ==
    /\ pc = "backend"
    /\ LET o == IF file = "main"
                THEN identify_backend_language(file, results, html_content.val,
                                               headers.val)
                ELSE identify_backend_language_with_context(file, results,
                                               html_content.val, headers.val)
       IN  /\ results' = o.results
           /\ pc' = IF o.raised THEN "raised" ELSE "report"
    /\ calls' = calls \o <<IF file = "main" THEN "identify_backend_language"
                           ELSE "identify_backend_language_with_context">>
    /\ UNCHANGED <<file, verbose, output_json, html_content, headers, response,
                   server, fetches, report, json_out, ret>>

\* the display of self.results, the JSON when asked for, "Scan completed."
RunReport ==
    /\ pc = "report"
    /\ LET shown == IF DOMAIN results # {}
                    THEN Log(file, "info") /\ Log(file, "success")
                    ELSE Log(file, "warn")
       IN  /\ report' = IF DOMAIN results # {} THEN "results" ELSE "no_tech"
           /\ json_out' = IF shown /\ output_json THEN Some(results) ELSE json_out
           /\ pc' = IF shown /\ Log(file, "info") THEN "done" ELSE "raised"
    /\ UNCHANGED <<file, verbose, output_json, results, html_content, headers,
                   response, server, fetches, calls, ret>>

Next == RunBanner \/ RunFetch \/ RunCheck \/ RunTechnology \/ RunBackend \/ RunReport

Spec == InitRun /\ [][Next]_vars

-----------------------------------------------------------------------------
(* The methods called alone, each on a scanner just built                  *)

InitCall ==
    /\ file \in {"main", "v2"}
    /\ verbose = TRUE
    /\ output_json = FALSE
    /\ results = EmptyDict
    /\ pc = "ready"
    /\ html_content = None
    /\ headers = None
    /\ response = NoResponse
    /\ server = None
    /\ fetches = 0
    /\ calls = <<>>
    /\ report = "none"
    /\ json_out = None
    /\ ret = None

\* the call of method `name` ended as o says
Ends(name, o) ==
    /\ calls' = <<name>>
    /\ results' = o.results
    /\ ret' = o.ret
    /\ pc' = IF o.raised THEN "raised" ELSE "returned"
    /\ UNCHANGED <<file, verbose, output_json, report, json_out>>

CallDetectWebServer ==
    /\ pc = "ready"
    /\ \E s \in ServerValues :
         /\ Ends("detect_web_server", detect_web_server(file, results, s))
         /\ server' = Some(s)
    /\ UNCHANGED <<html_content, headers, response, fetches>>

CallFetchWebsite ==
    /\ pc = "ready"
    /\ \E resp \in FailedResponses \cup
                   {r \in OkResponses : r.text \in Frags} :
         LET o == fetch_website(file, verbose, results, resp)
         IN  /\ results' = o.results
             /\ ret' = IF o.raised THEN None ELSE Some(o.ret)
             /\ calls' = o.entered
             /\ pc' = IF o.raised THEN "raised" ELSE "returned"
             /\ fetches' = IF o.sent THEN fetches + 1 ELSE fetches
             /\ response' = resp
             /\ server' = IF Len(o.entered) > 1
                          THEN Some(HeaderGet(resp.headers, "Server", T_Unknown))
                          ELSE server
    /\ UNCHANGED <<file, verbose, output_json, html_content, headers, report,
                   json_out>>

CallIdentifyTechnology ==
    /\ pc = "ready"
    /\ file = "main"
    /\ \E html \in Bodies :
         /\ Ends("identify_technology", identify_technology(file, results, html))
         /\ html_content' = Some(html)
    /\ UNCHANGED <<headers, response, server, fetches>>

CallIdentifyBackendLanguage ==
    /\ pc = "ready"
    /\ file = "main"
    /\ \E html \in Bodies, hdrs \in HeaderLists :
         /\ Ends("identify_backend_language",
                 identify_backend_language(file, results, html, hdrs))
         /\ html_content' = Some(html)
         /\ headers' = Some(hdrs)
    /\ UNCHANGED <<response, server, fetches>>

CallIdentifyTechnologyWithContext ==
    /\ pc = "ready"
    /\ file = "v2"
    /\ \E html \in Bodies :
         /\ Ends("identify_technology_with_context",
                 identify_technology_with_context(file, results, html))
         /\ html_content' = Some(html)
    /\ UNCHANGED <<headers, response, server, fetches>>

CallIdentifyBackendLanguageWithContext ==
    /\ pc = "ready"
    /\ file = "v2"
    /\ \E html \in Bodies, hdrs \in HeaderLists :
         /\ Ends("identify_backend_language_with_context",
                 identify_backend_language_with_context(file, results, html, hdrs))
         /\ html_content' = Some(html)
         /\ headers' = Some(hdrs)
    /\ UNCHANGED <<response, server, fetches>>

CallDetectTechnologies ==
    /\ pc = "ready"
    /\ file = "v2"
    /\ \E html \in Bodies :
         /\ Ends("detect_technologies", detect_technologies(file, html))
         /\ html_content' = Some(html)
    /\ UNCHANGED <<headers, response, server, fetches>>

CallDetectBackend ==
    /\ pc = "ready"
    /\ file = "v2"
    /\ \E html \in Bodies, hdrs \in HeaderLists :
         /\ Ends("detect_backend", detect_backend(file, hdrs, html))
         /\ html_content' = Some(html)
         /\ headers' = Some(hdrs)
    /\ UNCHANGED <<response, server, fetches>>

\* the next call is made on a scanner built anew
NewScanner ==
    /\ pc \in {"returned", "raised"}
    /\ pc' = "ready"
    /\ results' = EmptyDict
    /\ html_content' = None
    /\ headers' = None
    /\ response' = NoResponse
    /\ server' = None
    /\ fetches' = 0
    /\ calls' = <<>>
    /\ ret' = None
    /\ UNCHANGED <<file, verbose, output_json, report, json_out>>

NextCall ==
    \/ CallDetectWebServer
    \/ CallFetchWebsite
    \/ CallIdentifyTechnology
    \/ CallIdentifyBackendLanguage
    \/ CallIdentifyTechnologyWithContext
    \/ CallIdentifyBackendLanguageWithContext
    \/ CallDetectTechnologies
    \/ CallDetectBackend
    \/ NewScanner

SpecCalls == InitCall /\ [][NextCall]_vars

-----------------------------------------------------------------------------
(* Properties                                                              *)

\* the methods that detect something
Detectors ==
    {"detect_web_server", "identify_technology", "identify_backend_language",
     "identify_technology_with_context", "identify_backend_language_with_context",
     "detect_technologies", "detect_backend"}

\* the call of `name`, made alone, is over
CallOver(name) == calls = <<name>> /\ pc \in {"returned", "raised"}

\* run() is over
ScanOver == pc \in {"done", "aborted", "raised"}

\* C1: after identify_technology(html), the Frontend record names the first
\* label of TECHNOLOGIES, in table order, whose pattern is found in html.
C1_FirstFrontendLabelRecorded ==
    CallOver("identify_technology") =>
        LET InBody(i) == Search(TECHNOLOGIES[i].pattern, html_content.val).found
        IN  \A i \in 1..Len(TECHNOLOGIES) :
                (InBody(i) /\ \A j \in 1..(i - 1) : ~InBody(j)) =>
                    /\ "Frontend" \in DOMAIN results
                    /\ results["Frontend"].name = TECHNOLOGIES[i].name

\* every non-overlapping match of a pattern in t, left to right
RECURSIVE MatchesFrom(_, _, _)
MatchesFrom(pattern, t, from) ==
    LET m == SearchFrom(pattern, t, from)
    IN  IF ~m.found THEN <<>> ELSE <<m>> \o MatchesFrom(pattern, t, m.end)

\* the window of one match: 50 characters before it and 50 after it
OwnWindow(t, m) ==
    Slice(t, Max(0, (m.start - 1) - ContextWindow), (m.end - 1) + ContextWindow)

\* some match of label i has one of the label's keywords in its own window
ValidatedInOwnWindow(i, t) ==
    LET ms  == MatchesFrom(TECHNOLOGIES[i].pattern, t, 1)
        kws == KeywordsFor(TECHNOLOGIES[i].name)
    IN  \E k \in 1..Len(ms) : \E q \in 1..Len(kws) :
            Contains(OwnWindow(t, ms[k]), kws[q])

\* C2: identify_technology_with_context(html) records the first label, in
\* table order, one of whose matches has a required keyword inside that
\* match's own window, and records nothing when no label has such a match.
C2_ValidatedByOwnWindow ==
    (CallOver("identify_technology_with_context") /\ pc = "returned") =>
        LET Valid(i) == ValidatedInOwnWindow(i, html_content.val)
        IN  /\ \A i \in 1..Len(TECHNOLOGIES) :
                   (Valid(i) /\ \A j \in 1..(i - 1) : ~Valid(j)) =>
                       /\ "Frontend" \in DOMAIN results
                       /\ results["Frontend"].name = TECHNOLOGIES[i].name
            /\ (\A i \in 1..Len(TECHNOLOGIES) : ~Valid(i)) =>
                   "Frontend" \notin DOMAIN results

\* C3: identify_backend_language(html, headers) records the first label of
\* BACKEND_LANGUAGES whose pattern is found in the body or in a header value,
\* with source "HTML" when the body matched and "Headers" otherwise, and
\* records nothing when no label matches.
C3_FirstBackendLabelRecorded ==
    CallOver("identify_backend_language") =>
        LET InBody(i) == Search(BACKEND_LANGUAGES[i].pattern, html_content.val).found
            Hit(i)    == InBody(i)
                         \/ AnyValueMatches(BACKEND_LANGUAGES[i].pattern, headers.val)
        IN  /\ \A i \in 1..Len(BACKEND_LANGUAGES) :
                   (Hit(i) /\ \A j \in 1..(i - 1) : ~Hit(j)) =>
                       /\ "Backend Language" \in DOMAIN results
                       /\ results["Backend Language"].name = BACKEND_LANGUAGES[i].name
                       /\ results["Backend Language"].source =
                              IF InBody(i) THEN "HTML" ELSE "Headers"
            /\ (\A i \in 1..Len(BACKEND_LANGUAGES) : ~Hit(i)) =>
                   "Backend Language" \notin DOMAIN results

\* the request was sent and failed
FetchFailed == fetches > 0 /\ response.kind # "ok"

\* no detector has been entered
NoDetectorRan == \A k \in 1..Len(calls) : calls[k] \notin Detectors

\* C4: once the fetch has failed the scan only aborts: no detector is
\* entered, self.results stays empty, nothing is reported, no JSON is
\* printed, and the request is sent once.
C4_FailedFetchAborts ==
    FetchFailed =>
        /\ pc \in {"check", "aborted"}
        /\ NoDetectorRan
        /\ DOMAIN results = {}
        /\ report = "none"
        /\ ~json_out.some
        /\ fetches = 1

\* a failed fetch, the scan aborted, JSON asked for
C4_Witness == FetchFailed /\ pc = "aborted" /\ output_json

\* name occurs in value, letters compared without case
OccursIgnoringCase(name, value) ==
    \E p \in 1..(Len(value) - Len(name) + 1) :
        \A k \in 1..Len(name) : Lower(value[p + k - 1]) = Lower(name[k])

\* C5: detect_web_server(server_info) never raises; it records the first of
\* nginx, Apache, LiteSpeed whose name occurs in server_info, case ignored,
\* and records nothing when none does (as for "Unknown").
C5_FirstServerLabelRecorded ==
    CallOver("detect_web_server") =>
        LET Named(i) == OccursIgnoringCase(WEB_SERVERS[i].name, server.val)
        IN  /\ pc = "returned"
            /\ \A i \in 1..Len(WEB_SERVERS) :
                   (Named(i) /\ \A j \in 1..(i - 1) : ~Named(j)) =>
                       /\ "Web Server" \in DOMAIN results
                       /\ results["Web Server"] = WEB_SERVERS[i].name
            /\ (\A i \in 1..Len(WEB_SERVERS) : ~Named(i)) =>
                   "Web Server" \notin DOMAIN results

\* no label of any table is found in the page the server answers with
NothingMatches(resp) ==
    /\ FirstFrom(WEB_SERVERS, HeaderGet(resp.headers, "Server", T_Unknown), 1) = 0
    /\ FirstFrom(TECHNOLOGIES, resp.text, 1) = 0
    /\ FirstFrom(BACKEND_LANGUAGES, resp.text, 1) = 0
    /\ FirstHeaderFrom(BACKEND_LANGUAGES, resp.headers, 1) = 0

\* C6: a scan that completes on a fetched page in which no label matches
\* ends with self.results empty, in the "No technologies detected." branch.
C6_NothingDetectedIsEmpty ==
    (pc = "done" /\ response.kind = "ok" /\ NothingMatches(response)) =>
        /\ DOMAIN results = {}
        /\ report = "no_tech"

\* C7: no detector ends with an exception, whatever the body and headers.
C7_DetectorsTotal ==
    (calls # <<>> /\ calls[1] \in Detectors) => pc # "raised"

\* the page of the end-to-end example
GeneratorPage ==
    [kind |-> "ok", text |-> F_generator, headers |-> << <<"Server", V_nginx>> >>]

\* C8: the basic scan of the page <meta name="generator" content="WordPress
\* 6.0"> served with Server: nginx/1.18.0 ends with exactly
\* {"Web Server": "nginx", "Frontend": {"name": "WordPress",
\* "detected_by": "wordpress"}}.
C8_EndToEndResult ==
    (file = "main" /\ response = GeneratorPage /\ ScanOver) =>
        /\ pc = "done"
        /\ DOMAIN results = {"Web Server", "Frontend"}
        /\ results["Web Server"] = <<"n","g","i","n","x">>
        /\ results["Frontend"] =
               [name |-> "WordPress",
                detected_by |-> <<"w","o","r","d","p","r","e","s","s">>]

\* some header value matches the pattern of backend label i
HeaderEvidence(i, hdrs) == AnyValueMatches(BACKEND_LANGUAGES[i].pattern, hdrs)

\* C9: identify_backend_language_with_context(html, headers) records a
\* Backend Language exactly when some header value matches some backend
\* pattern; it then names the first label, in table order, with a matching
\* header value and gives "Headers" as the evidence.  A match in the body
\* alone records nothing.
C9_BackendOnlyFromHeaders ==
    CallOver("identify_backend_language_with_context") =>
        LET Hit(i) == HeaderEvidence(i, headers.val)
        IN  /\ pc = "returned"
            /\ ("Backend Language" \in DOMAIN results)
                   <=> (\E i \in 1..Len(BACKEND_LANGUAGES) : Hit(i))
            /\ \A i \in 1..Len(BACKEND_LANGUAGES) :
                   (Hit(i) /\ \A j \in 1..(i - 1) : ~Hit(j)) =>
                       results["Backend Language"] =
                           [name |-> BACKEND_LANGUAGES[i].name,
                            detected_by |-> T_Headers]

\* the body matches PHP, no header value does, and Node.js is recorded from a
\* header value
C9_Witness ==
    /\ CallOver("identify_backend_language_with_context")
    /\ Search(BACKEND_LANGUAGES[1].pattern, html_content.val).found
    /\ ~HeaderEvidence(1, headers.val)
    /\ "Backend Language" \in DOMAIN results
    /\ results["Backend Language"].name = "Node.js"

\* the fetch succeeded and the page is the empty text
EmptyPageFetched == fetches > 0 /\ response.kind = "ok" /\ response.text = <<>>

\* C10: after a successful fetch of an empty body, run() aborts as it does
\* after a failed fetch: neither the frontend nor the backend detector is
\* entered, nothing is reported and no JSON is printed, although
\* detect_web_server has run and self.results holds "Web Server".
C10_EmptyBodyAborts ==
    EmptyPageFetched =>
        /\ pc \in {"check", "aborted"}
        /\ \A k \in 1..Len(calls) :
               calls[k] \in {"run", "fetch_website", "detect_web_server"}
        /\ \E k \in 1..Len(calls) : calls[k] = "detect_web_server"
        /\ "Web Server" \in DOMAIN results
        /\ report = "none"
        /\ ~json_out.some

\* an empty page whose headers name PHP, the scan aborted, JSON asked for
C10_Witness ==
    /\ EmptyPageFetched
    /\ pc = "aborted"
    /\ output_json
    /\ HeaderEvidence(1, response.headers)

=============================================================================
